---- MODULE Spec2Model ----
(***************************************************************************)
(* The investigation state machine of oncall/agent/agentv3.py together     *)
(* with the two sub-agent graphs it runs (oncall/agent/nodes/code_search.py *)
(* and oncall/agent/nodes/log_search.py).                                  *)
(*                                                                         *)
(* Three LangGraph graphs are involved.  The orchestrator graph has the    *)
(* nodes code_search, log_search, reasoner and reviewer; its code_search   *)
(* and log_search nodes each build and invoke a one-node sub-graph that    *)
(* loops on itself.  Every graph is invoked with recursion_limit = 50: a   *)
(* graph executes at most that many supersteps and raises                  *)
(* GraphRecursionError when a node is still scheduled after them.  An      *)
(* exception raised in a node is caught nowhere, so it ends the run.       *)
(*                                                                         *)
(* The Decision Backend (the LLM chain), the Code Lookup Backend (ripgrep) *)
(* and the Log Lookup Backend (Loki) are the environment: every decision   *)
(* and every lookup outcome is a nondeterministic choice.                  *)
(***************************************************************************)
EXTENDS Integers, Sequences, FiniteSets, TLC

\* ------------------------------------------------------------------ bounds
\* Under an arbitrary Decision Backend a run is followed for its first
\* MaxSteps orchestrator supersteps and MaxFetch fetch/query iterations.
MaxSteps == 7
MaxFetch == 2

\* ------------------------------------------------------- program constants
recursion_limit == 50
\* Faulty limit: a sub-graph allowed one superstep more.
recursion_limit_plus_one == recursion_limit + 1
code_recursion_limit == 50
log_recursion_limit == 50

VARIABLES
    backend,             \* the Decision Backend of this run:
                         \*   mode "free": any decision with any payload at every call; the
                         \*     evidence is recorded and the run is followed within the bounds
                         \*   mode "stub": a scripted backend (code_k fetches then TaskComplete,
                         \*     log_k queries then TaskComplete, one fixed decision per judge);
                         \*     payload text is not recorded and the run is followed to its end
    pc,                  \* "outer" | "code_loop" | "log_loop" | "returned" | "ceiling" | "failed"
    node,                \* the orchestrator node scheduled next
    step,                \* supersteps the orchestrator graph has executed
    first_pass,          \* OncallAgentState
    code_request,
    log_request,
    visited_directories,
    chat_history,
    rca,
    inner_step,          \* supersteps the running sub-graph has executed
    inner_visited,       \* CodeSearchAgentState.visited_directories
    inner_chat,          \* Code/LogSearchAgentState.chat_history
    result,              \* what OncallAgent.invoke returned
    last_decision,       \* history: <<judge, decision>> of the last judge that decided
    completed,           \* history: the first two investigation loops that completed
    reasoner_runs,       \* history: has the Reasoner been invoked
    total,               \* history: orchestrator supersteps plus fetch/query iterations,
                         \*          saturating above recursion_limit
    sent_queries,        \* history: the queries handed to the Log Lookup Backend
    lookups,             \* history: every call of a lookup backend,
                         \*          <<backend, argument, what the tool returned>>
    last_proposal,       \* history: the root cause the Reasoner proposed last
    fault,               \* history: what ended the run abnormally, "none" while nothing has
    context,             \* OncallAgentState: issue, repo_path, codebase_overview, file_tree,
                         \*                   labels_map
    attempts,            \* history: requests the last lookup made to its backend
    context_cache,       \* _context_cache of agent.py and of agentv2.py, by module
    last_load            \* history: the last call of a load_* function and what it returned

vars == <<backend, pc, node, step, first_pass, code_request, log_request,
          visited_directories, chat_history, rca, inner_step, inner_visited,
          inner_chat, result, last_decision, completed, reasoner_runs, total,
          sent_queries, lookups, last_proposal, fault, context, attempts,
          context_cache, last_load>>

cache_vars == <<context_cache, last_load>>
state_vars == <<first_pass, code_request, log_request, visited_directories,
                chat_history, rca>>
inner_vars == <<inner_step, inner_visited, inner_chat>>
run_vars == <<backend, pc, node, step, state_vars, inner_vars, result, last_decision,
              completed, reasoner_runs, total, sent_queries, lookups, last_proposal,
              fault, context, attempts>>

\* ------------------------------------------------------------ environment
Min(a, b) == IF a < b THEN a ELSE b

Free == backend.mode = "free"

\* Directories the Decision Backend may ask for; the second lies under the first.
Dirs == {"/repo/a", "/repo/a/b"}
IsStrictDescendant(p, q) == p = "/repo/a/b" /\ q = "/repo/a"

\* What ripgrep did: files found, nothing matched (exit 1), or rg failed.
CodeOutcomes == {"files", "no_match", "rg_error"}

\* LogQL queries; EmptySelector is a query with nothing between the braces.
EmptySelector == "{}"
Queries == {EmptySelector, "{service=\"payments\"}"}
\* start/end strings as the Decision Backend may write them.
GoodTime == "2025-03-03 03:00:00"
TimeStrs == {GoodTime, "03/03/2025 3am"}
\* What Loki did: request failed, answered with no streams, answered with lines.
LogOutcomes == {"error", "no_streams", "lines"}

Requests == {"r1"}
RootCauses == {"x", "y"}
Reasonings == {"because"}

NoResult == [chat_history |-> <<>>, rca |-> "<nothing returned>"]
NoDecision == <<"none", "none">>
NoProposal == "<none proposed>"
\* The two modules that keep a _context_cache, its keys and its initial entry.
Modules == {"agent", "agentv2"}
CacheKeys == {"file_tree", "codebase_overview", "labels_map"}
None == <<"None">>
NoLoad == [n |-> 0, module |-> "", key |-> "", argument |-> "", loaded |-> FALSE,
           returned |-> None]
\* The state OncallAgent.invoke is called with, as far as no node writes it.
InitialContext ==
    [issue |-> "order not found", repo_path |-> "/repo", codebase_overview |-> "overview",
     file_tree |-> "tree", labels_map |-> "labels"]

\* The scripted backends: how many fetches / queries before TaskComplete
\* (a count of the loop's recursion limit never gets to TaskComplete) and the
\* one decision each judge gives.
StubBackends ==
    [mode : {"stub"},
     code_k : {0, 1, code_recursion_limit},
     log_k : {0, 1, log_recursion_limit},
     reasoner : {"RootCauseAnalysis", "CodeRequest", "LogRequest"},
     reviewer : {"CodeRequest", "LogRequest", "TaskComplete"}]
    \cup
    [mode : {"stub"},
     code_k : {code_recursion_limit - 1},
     log_k : {0, log_recursion_limit - 1},
     reasoner : {"RootCauseAnalysis"},
     reviewer : {"TaskComplete"}]
FreeBackend ==
    [mode |-> "free", code_k |-> 0, log_k |-> 0,
     reasoner |-> "CodeRequest", reviewer |-> "CodeRequest"]

\* Decisions the Decision Backend may return at the four call sites.
Decision(type, arg) == [type |-> type, arg |-> arg]
CodeDecisions ==
    IF Free
    THEN {Decision("CodeSearchInput", d) : d \in Dirs} \cup {Decision("TaskComplete", "")}
    ELSE IF inner_step < backend.code_k
         THEN {Decision("CodeSearchInput", "/repo/a")}
         ELSE {Decision("TaskComplete", "")}
LogDecisions ==
    IF Free
    THEN {Decision("LogSearchInput", <<q, s, e>>) : q \in Queries, s \in TimeStrs, e \in TimeStrs}
         \cup {Decision("TaskComplete", "")}
    ELSE IF inner_step < backend.log_k
         THEN {Decision("LogSearchInput", <<"{service=\"payments\"}", GoodTime, GoodTime>>)}
         ELSE {Decision("TaskComplete", "")}
JudgeDecisions(judge, final, payloads) ==
    LET all == {Decision("CodeRequest", r) : r \in Requests}
               \cup {Decision("LogRequest", r) : r \in Requests}
               \cup {Decision(final, p) : p \in payloads}
    IN  IF Free THEN all
        ELSE {d \in all : d.type = backend[judge] /\ d.arg \in {"r1", "x", ""}}
ReasonerDecisions == JudgeDecisions("reasoner", "RootCauseAnalysis", RootCauses)
ReviewerDecisions == JudgeDecisions("reviewer", "TaskComplete", {""})

\* Payload text is kept under the free backend only.
Record(s) == IF Free THEN s ELSE <<>>
Keep(old, new) == IF Free THEN new ELSE old

\* ---------------------------------------------------------------- reducers
\* Faulty reducers: the update put in front of the list, and the update
\* replacing the list.
operator_add_prepend(a, b) == b \o a
operator_add_replace(a, b) == b
\* OncallAgentState: Annotated[List[str], operator.add]
operator_add(a, b) == a \o b
\* Faulty reducer of the Code sub-graph: the update put in front of the list.
code_operator_add_prepend(a, b) == b \o a
\* CodeSearchAgentState: Annotated[List[str], operator.add]
code_operator_add(a, b) == a \o b
\* Faulty reducer of the Log sub-graph: the update put in front of the list.
log_operator_add_prepend(a, b) == b \o a
\* Faulty reducer of the Log sub-graph: the update replacing the list.
log_operator_add_replace(a, b) == b
\* LogSearchAgentState: Annotated[List[str], operator.add]
log_operator_add(a, b) == a \o b
\* Annotated[str, operator_replace]
operator_replace(a, b) == b

\* ------------------------------------------------------------------ lookups
\* Faulty lookup: the stderr of a failed rg handed back as the result.
CodeSearchTool_run_stderr(outcome) ==
    IF outcome = "files" THEN "File: ..."
    ELSE IF outcome = "rg_error" THEN "Error running rg" ELSE ""
\* CodeSearchTool._run: a failed rg is skipped, so the map stays empty and the
\* pretty-printed result is the empty string.
CodeSearchTool_run(outcome) == IF outcome = "files" THEN "File: ..." ELSE ""

\* strptime(date_str, "%Y-%m-%d %H:%M:%S") raises ValueError on any other format.
to_unix_nano_raises(t) == t # "2025-03-03 03:00:00"

\* LogSearchTool._run over fetch_loki_logs.
LogSearchTool_run(outcome) ==
    IF outcome = "error" THEN "No logs found or error occurred during search."
    ELSE IF outcome = "no_streams" THEN "" ELSE "payments ..."

\* CodeSearchTool._run: one subprocess.run per directory; a failed rg is
\* skipped with "continue", not run again.
subprocess_runs(outcome) == 1
\* fetch_loki_logs: one requests.get; a RequestException is printed and None
\* is returned.
requests_get_calls(outcome) == 1

\* Faulty marker: an empty result left as it is.
OrEmpty_blank(ctx) == ctx
\* "EMPTY" if not ctx else ctx
OrEmpty(ctx) == IF ctx = "" THEN "EMPTY" ELSE ctx

CodeChatMessage(dir, code_ctx) == <<"Searched for", dir, code_ctx>>
LogChatMessage(query, log_ctx) == <<"Log search", query, log_ctx>>
\* Faulty entry: the judge's decision appended in place of its reasoning.
ReasoningMessage_decision(text) == <<"decision", "", "">>
ReasoningMessage(text) == <<"reasoning", text, "">>

\* ------------------------------------------------------------------ routing
\* Faulty routings: no bootstrap branch, the Log loop handing over to the
\* Reviewer, and a proposal ending the run unreviewed.
CodeSearchGoto_no_bootstrap(fp) == "reasoner"
LogSearchGoto_to_reviewer == "reviewer"
ReasonGoto_end(kind) ==
    CASE kind = "RootCauseAnalysis" -> "END"
      [] kind = "CodeRequest" -> "code_search"
      [] kind = "LogRequest" -> "log_search"
\* Faulty routing: the Reasoner's requests for code and for logs swapped.
ReasonGoto_swapped(kind) ==
    CASE kind = "RootCauseAnalysis" -> "reviewer"
      [] kind = "CodeRequest" -> "log_search"
      [] kind = "LogRequest" -> "code_search"
\* Faulty routing: a later Code loop handing over to the Reviewer.
CodeSearchGoto_to_reviewer(fp) == IF fp THEN "log_search" ELSE "reviewer"
\* OncallAgent.code_search: goto after the Code loop returned.
CodeSearchGoto(fp) == IF fp THEN "log_search" ELSE "reasoner"
\* OncallAgent.log_search
LogSearchGoto == "reasoner"
\* OncallAgent.reason
ReasonGoto(kind) ==
    CASE kind = "RootCauseAnalysis" -> "reviewer"
      [] kind = "CodeRequest" -> "code_search"
      [] kind = "LogRequest" -> "log_search"
\* Faulty routing: the Reviewer's request for code handed to the Reasoner.
ReviewGoto_to_reasoner(kind) ==
    CASE kind = "CodeRequest" -> "reasoner"
      [] kind = "LogRequest" -> "log_search"
      [] kind = "TaskComplete" -> "END"
\* Faulty routing: approval goes to a node the graph does not have.
ReviewGoto_typo(kind) ==
    CASE kind = "CodeRequest" -> "code_search"
      [] kind = "LogRequest" -> "log_search"
      [] kind = "TaskComplete" -> "end"
\* OncallAgent.review
ReviewGoto(kind) ==
    CASE kind = "CodeRequest" -> "code_search"
      [] kind = "LogRequest" -> "log_search"
      [] kind = "TaskComplete" -> "END"

\* Faulty update: a node's Command also carries an "issue" key.
ContextUpdate_rewrite(ctx) == [ctx EXCEPT !.issue = "rewritten"]
\* No update of an orchestrator node carries issue, repo_path,
\* codebase_overview, file_tree or labels_map.
ContextUpdate(ctx) == ctx
\* Faulty update: the first-pass branch forgets to clear the flag.
FirstPassUpdate_stuck(fp) == fp
\* OncallAgent.code_search: "first_pass": False is in the update of the
\* first-pass branch only.
FirstPassUpdate(fp) == IF fp THEN FALSE ELSE fp

\* A graph whose node went to END is done: compiled_graph.invoke returns the
\* final state and OncallAgent.invoke returns its chat_history and rca.
PcAfter(next_node) == IF next_node = "END" THEN "returned" ELSE "outer"
ResultAfter(next_node, old, final_chat, final_rca) ==
    IF next_node = "END" THEN [chat_history |-> final_chat, rca |-> final_rca] ELSE old

\* --------------------------------------------------------------------- Init
Init ==
    /\ backend \in {FreeBackend} \cup StubBackends
    /\ pc = "outer"
    /\ node = "code_search"
    /\ step = 0
    /\ first_pass = TRUE
    /\ code_request = "c0"
    /\ log_request = "l0"
    /\ visited_directories = <<>>
    /\ chat_history = <<>>
    /\ rca = ""
    /\ inner_step = 0
    /\ inner_visited = <<>>
    /\ inner_chat = <<>>
    /\ result = NoResult
    /\ last_decision = NoDecision
    /\ completed = <<>>
    /\ reasoner_runs = FALSE
    /\ total = 0
    /\ sent_queries = {}
    /\ lookups = <<>>
    /\ attempts = 0
    /\ context_cache = [module \in Modules |-> [key \in CacheKeys |-> None]]
    /\ last_load = NoLoad
    /\ last_proposal = NoProposal
    /\ fault = "none"
    /\ context = InitialContext

\* -------------------------------------------------------------------- steps
ExploreStep == Free => step < MaxSteps
ExploreFetch == Free => total - step < MaxFetch
Tick == Min(total + 1, recursion_limit + 1)
NoteCompleted(loop) == IF Len(completed) < 2 THEN Append(completed, loop) ELSE completed

\* OncallAgent.code_search up to CodeSearchAgent.invoke: the sub-graph starts
\* from the orchestrator's visited_directories and chat_history.
CodeSearchDispatch ==
    /\ pc = "outer" /\ node = "code_search" /\ step < recursion_limit
    /\ ExploreStep
    /\ pc' = "code_loop"
    /\ inner_step' = 0
    /\ inner_visited' = code_operator_add(<<>>, visited_directories)
    /\ inner_chat' = code_operator_add(<<>>, chat_history)
    /\ UNCHANGED <<backend, node, step, state_vars, result, last_decision,
                   completed, reasoner_runs, total, sent_queries, lookups, last_proposal, fault, context, attempts,
                   cache_vars>>

\* Faulty fetch: a directory whose lookup came back empty is not marked visited.
CodeFetch_skip_empty(output, outcome) ==
    /\ pc = "code_loop" /\ inner_step < code_recursion_limit
    /\ ExploreFetch
    /\ output.type = "CodeSearchInput"
    /\ LET found == CodeSearchTool_run(outcome)
           code_ctx == OrEmpty(found)
       IN
        /\ lookups' = Record(Append(lookups, <<"code", output.arg, found>>))
        /\ attempts' = Keep(attempts, subprocess_runs(outcome))
        /\ inner_chat' = Record(code_operator_add(inner_chat,
                                                  <<CodeChatMessage(output.arg, code_ctx)>>))
        /\ inner_visited' = IF found = "" THEN inner_visited
                            ELSE Record(code_operator_add(inner_visited, <<output.arg>>))
    /\ inner_step' = inner_step + 1
    /\ total' = Tick
    /\ UNCHANGED <<backend, pc, node, step, state_vars, result, last_decision,
                   completed, reasoner_runs, sent_queries, last_proposal, fault, context,
                   cache_vars>>

\* CodeSearchAgent.code_search, CodeSearchInput branch.
CodeFetch(output, outcome) ==
    /\ pc = "code_loop" /\ inner_step < code_recursion_limit
    /\ ExploreFetch
    /\ output.type = "CodeSearchInput"
    /\ LET found == CodeSearchTool_run(outcome)
           code_ctx == OrEmpty(found)
       IN
        /\ lookups' = Record(Append(lookups, <<"code", output.arg, found>>))
        /\ attempts' = Keep(attempts, subprocess_runs(outcome))
        /\ inner_chat' = Record(code_operator_add(inner_chat,
                                                  <<CodeChatMessage(output.arg, code_ctx)>>))
        /\ inner_visited' = Record(code_operator_add(inner_visited, <<output.arg>>))
    /\ inner_step' = inner_step + 1
    /\ total' = Tick
    /\ UNCHANGED <<backend, pc, node, step, state_vars, result, last_decision,
                   completed, reasoner_runs, sent_queries, last_proposal, fault, context,
                   cache_vars>>
CodeLoopFetch ==
    \E output \in CodeDecisions, outcome \in CodeOutcomes : CodeFetch(output, outcome)

\* CodeSearchAgent.code_search, TaskComplete branch, then CodeSearchAgent.invoke
\* returns the sub-graph's lists and OncallAgent.code_search merges them.
CodeLoopComplete ==
    /\ pc = "code_loop" /\ inner_step < code_recursion_limit
    /\ \E output \in CodeDecisions : output.type = "TaskComplete"
    /\ chat_history' = Record(operator_add(chat_history, inner_chat))
    /\ visited_directories' = Record(operator_add(visited_directories, inner_visited))
    /\ first_pass' = FirstPassUpdate(first_pass)
    /\ node' = CodeSearchGoto(first_pass)
    /\ pc' = PcAfter(node')
    /\ result' = ResultAfter(node', result, chat_history', rca)
    /\ context' = ContextUpdate(context)
    /\ step' = step + 1
    /\ inner_step' = inner_step + 1
    /\ total' = Tick
    /\ completed' = NoteCompleted("code")
    /\ UNCHANGED <<backend, code_request, log_request, rca, inner_visited,
                   inner_chat, last_decision, reasoner_runs, sent_queries, lookups, last_proposal, fault, attempts,
                   cache_vars>>

\* OncallAgent.log_search up to LogSearchAgent.invoke.
LogSearchDispatch ==
    /\ pc = "outer" /\ node = "log_search" /\ step < recursion_limit
    /\ ExploreStep
    /\ pc' = "log_loop"
    /\ inner_step' = 0
    /\ inner_visited' = <<>>
    /\ inner_chat' = log_operator_add(<<>>, chat_history)
    /\ UNCHANGED <<backend, node, step, state_vars, result, last_decision,
                   completed, reasoner_runs, total, sent_queries, lookups, last_proposal, fault, context, attempts,
                   cache_vars>>

\* LogSearchAgent.log_search, LogSearchInput branch: the query goes to
\* LogSearchTool._run as the Decision Backend wrote it.
LogQuery(output, outcome) ==
    /\ pc = "log_loop" /\ inner_step < log_recursion_limit
    /\ ExploreFetch
    /\ output.type = "LogSearchInput"
    /\ LET query == output.arg[1]
           start == output.arg[2]
           end == output.arg[3]
           found == LogSearchTool_run(outcome)
           log_ctx == OrEmpty(found)
       IN  /\ ~to_unix_nano_raises(start) /\ ~to_unix_nano_raises(end)
           /\ sent_queries' = sent_queries \cup {query}
           /\ lookups' = Record(Append(lookups, <<"log", query, found>>))
           /\ attempts' = Keep(attempts, requests_get_calls(outcome))
           /\ inner_chat' = Record(log_operator_add(inner_chat,
                                                    <<LogChatMessage(query, log_ctx)>>))
    /\ inner_step' = inner_step + 1
    /\ total' = Tick
    /\ UNCHANGED <<backend, pc, node, step, state_vars, inner_visited, result,
                   last_decision, completed, reasoner_runs, last_proposal, fault, context,
                   cache_vars>>
LogLoopQuery ==
    \E output \in LogDecisions, outcome \in LogOutcomes : LogQuery(output, outcome)

\* fetch_loki_logs converts start and end before its try block: a time string
\* in another format raises ValueError out of the node.
LogLoopBadTime ==
    /\ pc = "log_loop" /\ inner_step < log_recursion_limit
    /\ ExploreFetch
    /\ \E output \in LogDecisions :
         /\ output.type = "LogSearchInput"
         /\ to_unix_nano_raises(output.arg[2]) \/ to_unix_nano_raises(output.arg[3])
    /\ pc' = "failed"
    /\ fault' = "time format"
    /\ UNCHANGED <<backend, node, step, state_vars, inner_vars, result,
                   last_decision, completed, reasoner_runs, total, sent_queries, lookups, last_proposal, context, attempts,
                   cache_vars>>

\* Faulty merge: the Command of OncallAgent.log_search also carries the
\* sub-graph's (empty) visited_directories under a replacing key.
LogLoopComplete_resets_visited ==
    /\ pc = "log_loop" /\ inner_step < log_recursion_limit
    /\ \E output \in LogDecisions : output.type = "TaskComplete"
    /\ chat_history' = Record(operator_add(chat_history, inner_chat))
    /\ visited_directories' = inner_visited
    /\ node' = LogSearchGoto
    /\ pc' = PcAfter(node')
    /\ result' = ResultAfter(node', result, chat_history', rca)
    /\ context' = ContextUpdate(context)
    /\ step' = step + 1
    /\ inner_step' = inner_step + 1
    /\ total' = Tick
    /\ completed' = NoteCompleted("log")
    /\ UNCHANGED <<backend, first_pass, code_request, log_request,
                   rca, inner_visited, inner_chat,
                   last_decision, reasoner_runs, sent_queries, lookups, last_proposal, fault, attempts,
                   cache_vars>>

\* LogSearchAgent.log_search, TaskComplete branch (the node returns nothing and
\* the sub-graph ends), then OncallAgent.log_search merges the returned list.
LogLoopComplete ==
    /\ pc = "log_loop" /\ inner_step < log_recursion_limit
    /\ \E output \in LogDecisions : output.type = "TaskComplete"
    /\ chat_history' = Record(operator_add(chat_history, inner_chat))
    /\ node' = LogSearchGoto
    /\ pc' = PcAfter(node')
    /\ result' = ResultAfter(node', result, chat_history', rca)
    /\ context' = ContextUpdate(context)
    /\ step' = step + 1
    /\ inner_step' = inner_step + 1
    /\ total' = Tick
    /\ completed' = NoteCompleted("log")
    /\ UNCHANGED <<backend, first_pass, code_request, log_request,
                   visited_directories, rca, inner_visited, inner_chat,
                   last_decision, reasoner_runs, sent_queries, lookups, last_proposal, fault, attempts,
                   cache_vars>>

\* Faulty updates: a Reasoner that asks for more evidence wipes the root cause,
\* only the first proposal is written, and a request for code also overwrites
\* the log request.
RcaUpdate_reset(output, old) ==
    IF output.type = "RootCauseAnalysis"
    THEN Keep(old, operator_replace(old, output.arg)) ELSE ""
RcaUpdate_first(output, old) ==
    IF output.type = "RootCauseAnalysis" /\ old = ""
    THEN Keep(old, operator_replace(old, output.arg)) ELSE old
LogRequestUpdate_any(output, old) ==
    IF output.type \in {"CodeRequest", "LogRequest"}
    THEN Keep(old, operator_replace(old, output.arg)) ELSE old
\* The update a judge's Command carries for rca, code_request and log_request:
\* the key is present for one kind of decision only.
RcaUpdate(output, old) ==
    IF output.type = "RootCauseAnalysis"
    THEN Keep(old, operator_replace(old, output.arg)) ELSE old
CodeRequestUpdate(output, old) ==
    IF output.type = "CodeRequest"
    THEN Keep(old, operator_replace(old, output.arg)) ELSE old
LogRequestUpdate(output, old) ==
    IF output.type = "LogRequest"
    THEN Keep(old, operator_replace(old, output.arg)) ELSE old

\* OncallAgent.reason
ReasonWith(output, reasoning) ==
    /\ pc = "outer" /\ node = "reasoner" /\ step < recursion_limit
    /\ ExploreStep
    /\ chat_history' = Record(operator_add(chat_history, <<ReasoningMessage(reasoning)>>))
    /\ rca' = RcaUpdate(output, rca)
    /\ code_request' = CodeRequestUpdate(output, code_request)
    /\ log_request' = LogRequestUpdate(output, log_request)
    /\ node' = ReasonGoto(output.type)
    /\ last_decision' = <<"reasoner", output.type>>
    /\ last_proposal' = IF output.type = "RootCauseAnalysis"
                        THEN Keep(last_proposal, output.arg) ELSE last_proposal
    /\ pc' = PcAfter(node')
    /\ result' = ResultAfter(node', result, chat_history', rca')
    /\ reasoner_runs' = TRUE
    /\ context' = ContextUpdate(context)
    /\ step' = step + 1
    /\ total' = Tick
    /\ UNCHANGED <<backend, first_pass, visited_directories, inner_vars,
                   completed, sent_queries, lookups, fault, attempts,
                   cache_vars>>
Reason ==
    \E output \in ReasonerDecisions, reasoning \in Reasonings : ReasonWith(output, reasoning)

\* OncallAgent.review
ReviewWith(output, reasoning) ==
    /\ pc = "outer" /\ node = "reviewer" /\ step < recursion_limit
    /\ ExploreStep
    /\ chat_history' = Record(operator_add(chat_history, <<ReasoningMessage(reasoning)>>))
    /\ code_request' = CodeRequestUpdate(output, code_request)
    /\ log_request' = LogRequestUpdate(output, log_request)
    /\ node' = ReviewGoto(output.type)
    /\ last_decision' = <<"reviewer", output.type>>
    /\ pc' = PcAfter(node')
    /\ result' = ResultAfter(node', result, chat_history', rca)
    /\ context' = ContextUpdate(context)
    /\ step' = step + 1
    /\ total' = Tick
    /\ UNCHANGED <<backend, first_pass, visited_directories, rca, inner_vars,
                   completed, reasoner_runs, sent_queries, lookups, last_proposal, fault, attempts,
                   cache_vars>>
Review ==
    \E output \in ReviewerDecisions, reasoning \in Reasonings : ReviewWith(output, reasoning)

\* Faulty handling: the exception of chain.invoke is caught in the node and
\* the node is run again.
DecisionBackendFail_swallowed ==
    /\ \/ pc = "code_loop" /\ inner_step < code_recursion_limit
       \/ pc = "log_loop" /\ inner_step < log_recursion_limit
       \/ pc = "outer" /\ node \in {"reasoner", "reviewer"} /\ step < recursion_limit
    /\ fault = "none"
    /\ fault' = "decision backend"
    /\ UNCHANGED <<backend, pc, node, step, state_vars, inner_vars, result,
                   last_decision, completed, reasoner_runs, total, sent_queries, lookups,
                   last_proposal, context, attempts,
                   cache_vars>>

\* Faulty handling: a loop whose Decision Backend call raises hands its lists
\* to the orchestrator state before the exception leaves.
DecisionBackendFail_commit ==
    /\ \/ pc = "code_loop" /\ inner_step < code_recursion_limit
       \/ pc = "log_loop" /\ inner_step < log_recursion_limit
       \/ pc = "outer" /\ node \in {"reasoner", "reviewer"} /\ step < recursion_limit
    /\ pc' = "failed"
    /\ fault' = "decision backend"
    /\ chat_history' = IF pc = "outer" THEN chat_history
                       ELSE Record(operator_add(chat_history, inner_chat))
    /\ visited_directories' = IF pc = "code_loop"
                              THEN Record(operator_add(visited_directories, inner_visited))
                              ELSE visited_directories
    /\ UNCHANGED <<backend, node, step, first_pass, code_request, log_request, rca,
                   inner_vars, result, last_decision, completed, reasoner_runs, total,
                   sent_queries, lookups, last_proposal, context, attempts,
                   cache_vars>>

\* chain.invoke raises in one of the four call sites (the LLM client gave up
\* after its retries, or the output could not be decoded).
DecisionBackendFail ==
    /\ \/ pc = "code_loop" /\ inner_step < code_recursion_limit
       \/ pc = "log_loop" /\ inner_step < log_recursion_limit
       \/ pc = "outer" /\ node \in {"reasoner", "reviewer"} /\ step < recursion_limit
    /\ pc' = "failed"
    /\ fault' = "decision backend"
    /\ UNCHANGED <<backend, node, step, state_vars, inner_vars, result,
                   last_decision, completed, reasoner_runs, total, sent_queries, lookups, last_proposal, context, attempts,
                   cache_vars>>

\* compiled_graph.invoke of the orchestrator: a node is still scheduled after
\* recursion_limit supersteps.
OrchestratorCeiling ==
    /\ pc = "outer" /\ node # "END" /\ step = recursion_limit
    /\ pc' = "ceiling"
    /\ fault' = "ceiling: orchestrator"
    /\ UNCHANGED <<backend, node, step, state_vars, inner_vars, result,
                   last_decision, completed, reasoner_runs, total, sent_queries, lookups, last_proposal, context, attempts,
                   cache_vars>>

\* compiled_graph.invoke of a sub-agent: the loop node is still scheduled after
\* its recursion limit; the error leaves the orchestrator node uncaught.
LoopCeiling ==
    /\ \/ pc = "code_loop" /\ inner_step = code_recursion_limit
       \/ pc = "log_loop" /\ inner_step = log_recursion_limit
    /\ pc' = "ceiling"
    /\ fault' = IF pc = "code_loop" THEN "ceiling: code loop" ELSE "ceiling: log loop"
    /\ UNCHANGED <<backend, node, step, state_vars, inner_vars, result,
                   last_decision, completed, reasoner_runs, total, sent_queries, lookups, last_proposal, context, attempts,
                   cache_vars>>

Next ==
    \/ CodeSearchDispatch
    \/ CodeLoopFetch
    \/ CodeLoopComplete
    \/ LogSearchDispatch
    \/ LogLoopQuery
    \/ LogLoopBadTime
    \/ LogLoopComplete
    \/ Reason
    \/ Review
    \/ DecisionBackendFail
    \/ OrchestratorCeiling
    \/ LoopCeiling

Spec == Init /\ [][Next]_vars

\* Execution is synchronous: a run that can take a step takes it.
FairSpec == Spec /\ WF_vars(Next)

Terminal == {"returned", "ceiling", "failed"}

\* ---------------------------------------------------------- reference cache
\* agent.py and agentv2.py: the load_* functions over the module's
\* _context_cache. A loaded value is written <<key, argument, contents>>.
MaxCalls == 4
Raises == <<"raises">>
Paths == {"/repo", "/other"}
Contents == {"", "text"}

\* collect_files and generate_tree_string: the tree of the files under
\* repo_path as a string, or an exception (the path cannot be walked).
generate_tree_string_results(repo_path) ==
    {<<"file_tree", repo_path, c>> : c \in Contents} \cup {Raises}
\* open(overview_path).read(): the text of the file, or an exception.
read_results(overview_path) ==
    {<<"codebase_overview", overview_path, c>> : c \in Contents} \cup {Raises}
\* build_labels_map(base_url, hours_back): the function takes (base_url,
\* start, end), so the call with two arguments raises TypeError.
build_labels_map_results(base_url) == {Raises}

Fallback(key) ==
    CASE key = "file_tree" -> <<key, "", "File tree could not be loaded.">>
      [] key = "codebase_overview" -> <<key, "", "Codebase overview could not be loaded.">>
      [] key = "labels_map" -> <<key, "", "{}">>

\* Faulty check: the cache is never consulted.
CacheHit_never(cached) == FALSE
\* if _context_cache[key] is not None
CacheHit(cached) == cached # None

\* The body the three functions share: return the cached value; otherwise
\* load, cache the result and return it; on an exception return the fallback.
CachedLoad(module, key, arg, results) ==
    /\ last_load.n < MaxCalls
    /\ LET cached == context_cache[module][key]
       IN  IF CacheHit(cached)
           THEN /\ last_load' = [n |-> last_load.n + 1, module |-> module, key |-> key,
                                 argument |-> arg, loaded |-> FALSE, returned |-> cached]
                /\ UNCHANGED context_cache
           ELSE \E loaded \in results :
                  /\ last_load' = [n |-> last_load.n + 1, module |-> module, key |-> key,
                                   argument |-> arg, loaded |-> TRUE,
                                   returned |-> IF loaded = Raises THEN Fallback(key)
                                                ELSE loaded]
                  /\ context_cache' = IF loaded = Raises THEN context_cache
                                      ELSE [context_cache EXCEPT ![module][key] = loaded]
    /\ UNCHANGED run_vars

load_file_tree ==
    \E module \in Modules, repo_path \in Paths :
        CachedLoad(module, "file_tree", repo_path, generate_tree_string_results(repo_path))
load_codebase_overview ==
    \E module \in Modules, overview_path \in Paths :
        CachedLoad(module, "codebase_overview", overview_path, read_results(overview_path))
load_labels_map ==
    \E module \in Modules, base_url \in {"https://logs-prod-021.grafana.net"} :
        CachedLoad(module, "labels_map", base_url, build_labels_map_results(base_url))

CacheNext ==
    \/ load_file_tree
    \/ load_codebase_overview
    \/ load_labels_map

\* The loaders called in any order in one process, before any run.
CacheInit == Init /\ Free
CacheSpec == CacheInit /\ [][CacheNext]_vars
\* ------------------------------------------------------------------ claims
IsPrefix(s, t) == Len(s) <= Len(t) /\ SubSeq(t, 1, Len(s)) = s
Approve == <<"reviewer", "TaskComplete">>

\* C1 (review gate): the run returns a root cause only when the last judge
\* decision was the Reviewer's TaskComplete; the graph reaches END in no other way.
C1_ReviewGate ==
    /\ (pc = "returned" \/ node = "END" \/ result # NoResult) => last_decision = Approve
    /\ result # NoResult => pc = "returned" /\ result.rca = rca
C1_Witness == pc = "returned" /\ result.rca \in RootCauses /\ last_decision = Approve

\* C2 (bootstrap ordering): the first loop to complete is the Code loop, the
\* second is the Log loop, and no judge is scheduled or invoked before both have.
C2_BootstrapOrdering ==
    /\ Len(completed) >= 1 => completed[1] = "code"
    /\ Len(completed) >= 2 => completed[2] = "log"
    /\ (reasoner_runs \/ node \in {"reasoner", "reviewer"}) => Len(completed) = 2
C2_Witness == reasoner_runs /\ completed = <<"code", "log">> /\ ~first_pass

\* C3 (re-judgment after re-gathering): after the Reviewer asked for code or
\* logs the next judge scheduled is the Reasoner, and the Reviewer is only ever
\* scheduled right after a Reasoner decision.
C3_ReJudgment ==
    /\ node = "reviewer" => last_decision[1] = "reasoner"
    /\ (last_decision[1] = "reviewer" /\ pc = "outer")
           => node \in {"code_search", "log_search", "reasoner"}
C3_Witness ==
    /\ last_decision \in {<<"reviewer", "CodeRequest">>, <<"reviewer", "LogRequest">>}
    /\ pc = "outer" /\ node = "reasoner"

\* C4 (no duplicate fetch): visited_directories holds no path twice and no
\* path that lies under a path standing before it in the list.
C4_NoDuplicateFetch ==
    \A i, j \in 1..Len(visited_directories) :
        i < j => /\ visited_directories[i] # visited_directories[j]
                 /\ ~IsStrictDescendant(visited_directories[j], visited_directories[i])

\* C5 (evidence is never removed or reordered): every step leaves the old
\* chat_history as a prefix of the new one.
C5_EvidencePrefix == [][IsPrefix(chat_history, chat_history')]_vars
C5_Witness ==
    /\ Len(chat_history) >= 3
    /\ chat_history[Len(chat_history)] = ReasoningMessage("because")
    /\ chat_history[1] # ReasoningMessage("because")

\* C6 (monotonic evidence): no step makes chat_history shorter.
C6_MonotonicEvidence == [][Len(chat_history') >= Len(chat_history)]_vars
C6_Witness == step >= 4 /\ Len(chat_history) >= 4
\* C7 (ceiling enforcement): under a scripted backend that keeps asking for
\* more evidence (a loop that always fetches or queries, or a judge that never
\* commits) and never fails, the run ends with a ceiling-exceeded failure, and
\* no graph has then executed more than recursion_limit supersteps.
AlwaysMore ==
    /\ backend.mode = "stub"
    /\ \/ backend.code_k = code_recursion_limit
       \/ backend.log_k = log_recursion_limit
       \/ backend.reasoner # "RootCauseAnalysis"
       \/ backend.reviewer # "TaskComplete"
C7_CeilingEnforcement ==
    (AlwaysMore /\ [](pc # "failed"))
        => <>(pc = "ceiling" /\ step <= recursion_limit /\ inner_step <= recursion_limit)
C7_Witness == AlwaysMore /\ pc = "ceiling" /\ step = recursion_limit

\* C8 as claimed (one global ceiling): orchestrator supersteps and fetch/query
\* iterations together never exceed recursion_limit.
C8_GlobalCeiling == total <= recursion_limit
\* C8 as amended (a ceiling per graph): the orchestrator executes at most
\* recursion_limit supersteps and each loop invocation at most as many.
C8_PerGraphCeiling == step <= recursion_limit /\ inner_step <= recursion_limit
C8_Witness == pc = "returned" /\ total > recursion_limit /\ step < recursion_limit

WithinBounds == Free => step < MaxSteps /\ total - step < MaxFetch
C10_EmptySelectorRejected == EmptySelector \notin sent_queries

\* A path is covered by a list of visited directories when it is one of them
\* or lies under one of them.
Covered(path, visited) ==
    \E i \in 1..Len(visited) : visited[i] = path \/ IsStrictDescendant(path, visited[i])

\* C11: when the Decision Backend asks the Code loop for a path that is already
\* visited or lies under a visited path, the Code Lookup Backend is not called,
\* the path is not added to visited_directories, one (warning) entry is appended
\* to the evidence and the loop goes on with the next decision.
C11_RefetchRecovery ==
    [][\A output \in CodeDecisions, outcome \in CodeOutcomes :
         (CodeFetch(output, outcome) /\ Covered(output.arg, inner_visited)) =>
             /\ lookups' = lookups
             /\ inner_visited' = inner_visited
             /\ Len(inner_chat') = Len(inner_chat) + 1
             /\ pc' = "code_loop"]_vars

\* Faulty surfacing: every exception wrapped in one generic exception.
Outcome_wrapped ==
    CASE pc = "returned" -> [type |-> "dict", chat_history |-> result.chat_history,
                             rca |-> result.rca]
      [] pc \in {"ceiling", "failed"} -> [type |-> "Exception"]
      [] OTHER -> [type |-> "running"]
\* What the caller of OncallAgent.invoke gets: the returned dict, or the
\* exception that left compiled_graph.invoke (GraphRecursionError carries a
\* message, the exception of a node is whatever the node raised).
Outcome ==
    CASE pc = "returned" -> [type |-> "dict", chat_history |-> result.chat_history,
                             rca |-> result.rca]
      [] pc = "ceiling" -> [type |-> "GraphRecursionError"]
      [] pc = "failed" -> [type |-> "Exception"]
      [] OTHER -> [type |-> "running"]

\* C12: a run that ends by a fatal condition hands its caller a failure that
\* carries the evidence gathered so far (the orchestrator's list, or the list
\* of the sub-graph that was running); a run that succeeds hands it exactly the
\* evidence log and the root cause.
C12_FailureCarriesEvidence ==
    /\ pc \in {"ceiling", "failed"} =>
           /\ "chat_history" \in DOMAIN Outcome
           /\ Outcome.chat_history \in {chat_history, inner_chat}
    /\ pc = "returned" =>
           /\ DOMAIN Outcome = {"type", "chat_history", "rca"}
           /\ Outcome.chat_history = chat_history
           /\ Outcome.rca = rca

\* C13 as stated: rca is defined exactly when the Reasoner has completed an
\* invocation.
C13_DefinedIffReasonerRan == Free => (rca # "" <=> reasoner_runs)

\* C13 as the code has it: rca is the text of the Reasoner's last
\* RootCauseAnalysis when there has been one and the empty initial value when
\* there has been none, and once it is not empty it never becomes empty again.
C13_DefinedIffProposed ==
    /\ [](IF last_proposal = NoProposal THEN rca = "" ELSE rca = last_proposal)
    /\ [][rca # "" => rca' # ""]_vars
\* The Reasoner proposed, the Reviewer sent the run for more evidence, and the
\* Reasoner then asked for code: rca still holds the proposal.
C13_Witness ==
    /\ Free /\ rca \in RootCauses
    /\ last_decision = <<"reasoner", "CodeRequest">>

\* The last n entries of a list: what a loop appended in its n fetch/query
\* iterations.
Produced(list, n) == SubSeq(list, Len(list) - n + 1, Len(list))

\* C14: when the Orchestrator merges the result of a Code or Log loop, the
\* evidence log becomes its value at dispatch followed by exactly the entries
\* that loop produced, and visited_directories its value at dispatch followed
\* by exactly the paths that loop fetched (none for a Log loop).
C14_MergeIsConcatenation ==
    [][(Free /\ pc \in {"code_loop", "log_loop"} /\ step' = step + 1) =>
          /\ chat_history' = chat_history \o Produced(inner_chat, inner_step)
          /\ visited_directories' =
                 visited_directories \o
                 (IF pc = "code_loop" THEN Produced(inner_visited, inner_step) ELSE <<>>)]_vars

\* The paths the Decision Backend asked for so far, in decision order, and the
\* entry each fetch should have left: it names the path and holds what the
\* lookup returned ("EMPTY" standing for an empty result).
FetchedPaths == [i \in 1..Len(lookups) |-> lookups[i][2]]
FetchedEntries ==
    [i \in 1..Len(lookups) |-> CodeChatMessage(lookups[i][2], OrEmpty(lookups[i][3]))]

\* C15: a Code loop started with empty visited_directories and empty evidence
\* holds, after k fetches, exactly those k paths in decision order and exactly
\* k entries, the i-th naming the i-th path and holding its lookup result; at
\* TaskComplete it returns them, and merged into the empty lists they are the
\* orchestrator's lists after its first step.
C15_CodeLoopFromEmpty ==
    /\ (Free /\ pc = "code_loop" /\ chat_history = <<>> /\ visited_directories = <<>>) =>
           /\ Len(lookups) = inner_step
           /\ inner_visited = FetchedPaths
           /\ inner_chat = FetchedEntries
    /\ (Free /\ pc = "outer" /\ step = 1) =>
           /\ visited_directories = FetchedPaths
           /\ chat_history = FetchedEntries
\* The first Code loop returned after fetching two different paths.
C15_Witness ==
    /\ Free /\ pc = "outer" /\ step = 1
    /\ Len(visited_directories) = 2 /\ Len(chat_history) = 2
    /\ visited_directories[1] # visited_directories[2]

\* C16: the Reviewer is given the Reasoner's most recent proposal, a Reviewer
\* step never changes rca, the rca a run returns is the one its approving
\* Reviewer was given, and so it is the text of the most recent proposal.
C16_ReturnedRootCause ==
    /\ []((Free /\ pc = "outer" /\ node = "reviewer") => rca = last_proposal)
    /\ [][(Free /\ pc = "outer" /\ node = "reviewer" /\ step' = step + 1) =>
             /\ rca' = rca
             /\ pc' = "returned" => result'.rca = rca]_vars
    /\ []((Free /\ pc = "returned") =>
             /\ result.rca = last_proposal
             /\ result.rca \in RootCauses)
\* A run approved at its seventh step: the proposal approved is the second one
\* the Reviewer saw or follows further investigation.
C16_Witness ==
    /\ Free /\ pc = "returned" /\ step = 7
    /\ result.rca = "y" /\ last_proposal = "y"

\* C17: a judge's NeedCode(r) leaves code_request = r and log_request as it
\* was, a judge's NeedLogs(r) leaves log_request = r and code_request as it
\* was, and no step of an investigation loop (dispatch, fetch/query, return)
\* changes either request.
C17_RequestsReplaced ==
    [][/\ \A judge \in {"reasoner", "reviewer"}, reasoning \in Reasonings :
          \A output \in (IF judge = "reasoner" THEN ReasonerDecisions ELSE ReviewerDecisions) :
             (/\ Free
              /\ IF judge = "reasoner" THEN ReasonWith(output, reasoning)
                                       ELSE ReviewWith(output, reasoning)) =>
                 /\ output.type = "CodeRequest" =>
                        code_request' = output.arg /\ log_request' = log_request
                 /\ output.type = "LogRequest" =>
                        log_request' = output.arg /\ code_request' = code_request
       /\ (pc \in {"code_loop", "log_loop"} \/ pc' \in {"code_loop", "log_loop"}) =>
             code_request' = code_request /\ log_request' = log_request]_vars
\* The Reviewer asked for code and nobody has asked for logs: code_request is
\* the Reviewer's request and log_request is still the initial one.
C17_Witness ==
    /\ Free /\ last_decision = <<"reviewer", "CodeRequest">>
    /\ code_request = "r1" /\ log_request = "l0"

InLoop == pc \in {"code_loop", "log_loop"}
\* A step in which a loop ran one iteration, and a step in which a judge decided.
LoopIteration == InLoop /\ inner_step' = inner_step + 1
JudgeDecision == pc = "outer" /\ node \in {"reasoner", "reviewer"} /\ step' = step + 1
AppendsOne(before, after) == Len(after) = Len(before) + 1 /\ IsPrefix(before, after)

\* C18 as stated: every iteration of a loop appends at least one entry to the
\* evidence the loop holds, and every judge decision appends at least one entry
\* to the evidence log.
C18_EveryIterationAppends ==
    [][Free =>
          /\ LoopIteration => Len(inner_chat') > Len(inner_chat)
          /\ JudgeDecision => Len(chat_history') > Len(chat_history)]_vars

\* C18 as the code has it: an iteration that fetches or queries appends exactly
\* one entry, a judge decision appends exactly one entry, and the iteration in
\* which a loop decides TaskComplete appends nothing before the loop returns.
C18_FetchesAndJudgesAppend ==
    [][Free =>
          /\ (LoopIteration /\ pc' = pc) => AppendsOne(inner_chat, inner_chat')
          /\ (LoopIteration /\ pc' # pc) => inner_chat' = inner_chat
          /\ JudgeDecision => AppendsOne(chat_history, chat_history')]_vars
\* The first Code loop decided TaskComplete at once: control is back with the
\* Orchestrator and the evidence log is still empty.
C18_Witness == Free /\ pc = "outer" /\ step = 1 /\ chat_history = <<>>

\* The transition table: the successor of each orchestrator node.
TableSuccessor(from, first, decision) ==
    CASE from = "code_search" -> IF first THEN "log_search" ELSE "reasoner"
      [] from = "log_search" -> "reasoner"
      [] from = "reasoner" /\ decision = "CodeRequest" -> "code_search"
      [] from = "reasoner" /\ decision = "LogRequest" -> "log_search"
      [] from = "reasoner" /\ decision = "RootCauseAnalysis" -> "reviewer"
      [] from = "reviewer" /\ decision = "CodeRequest" -> "code_search"
      [] from = "reviewer" /\ decision = "LogRequest" -> "log_search"
      [] from = "reviewer" /\ decision = "TaskComplete" -> "END"
      [] OTHER -> "not in the table"

\* C19: every orchestrator step goes from its node to the successor the
\* transition table gives for that node, the first-pass flag and the decision
\* the judge just made; the scheduled node changes in no other step; and a run
\* starts at CodeSearch.
C19_TransitionTable ==
    /\ [](step = 0 => node = "code_search")
    /\ [][/\ step' = step + 1 =>
                /\ node \in {"reasoner", "reviewer"} => last_decision'[1] = node
                /\ node' = TableSuccessor(node, first_pass, last_decision'[2])
          /\ node' # node => step' = step + 1]_vars
\* The Reviewer asked for logs and the Log loop is scheduled next.
C19_Witness ==
    /\ pc = "outer" /\ node = "log_search" /\ ~first_pass
    /\ last_decision = <<"reviewer", "LogRequest">>

LookupFailedText == "No logs found or error occurred during search."

\* C20 as stated: a fetch whose ripgrep failed, and a query whose request to
\* Loki failed, leave the loop running with exactly one new entry, and that
\* entry holds "EMPTY" as the result.
C20_FailureIsEmptyEvidence ==
    [][Free =>
          /\ \A output \in CodeDecisions :
                CodeFetch(output, "rg_error") =>
                    /\ pc' = "code_loop"
                    /\ inner_chat' = Append(inner_chat, CodeChatMessage(output.arg, "EMPTY"))
          /\ \A output \in LogDecisions :
                LogQuery(output, "error") =>
                    /\ pc' = "log_loop"
                    /\ inner_chat' = Append(inner_chat, LogChatMessage(output.arg[1], "EMPTY"))]_vars

\* C20 as the code has it: the same, except that the entry of a failed log
\* query holds the tool's message instead of "EMPTY".
C20_FailureIsRecorded ==
    [][Free =>
          /\ \A output \in CodeDecisions :
                CodeFetch(output, "rg_error") =>
                    /\ pc' = "code_loop"
                    /\ inner_chat' = Append(inner_chat, CodeChatMessage(output.arg, "EMPTY"))
          /\ \A output \in LogDecisions :
                LogQuery(output, "error") =>
                    /\ pc' = "log_loop"
                    /\ inner_chat' =
                          Append(inner_chat, LogChatMessage(output.arg[1], LookupFailedText))]_vars
\* A Log loop goes on after a query whose request failed, following a Code
\* loop whose only fetch came back with nothing.
C20_Witness ==
    /\ Free /\ pc = "log_loop" /\ inner_step >= 1
    /\ Len(lookups) >= 2
    /\ lookups[1][1] = "code" /\ lookups[1][3] = ""
    /\ lookups[Len(lookups)] = <<"log", "{service=\"payments\"}", LookupFailedText>>
    /\ inner_chat[Len(inner_chat)] = LogChatMessage("{service=\"payments\"}", LookupFailedText)

\* C21: once a Decision Backend call has failed the run is over: no step is
\* possible any more (no further decision, code lookup or log lookup) and the
\* caller is handed no result, hence no root cause.
C21_DecisionFailureIsFatal ==
    fault = "decision backend" =>
        /\ pc = "failed"
        /\ ~ENABLED Next
        /\ result = NoResult
        /\ "rca" \notin DOMAIN Outcome
\* The Reviewer's Decision Backend call failed after the Reasoner had proposed
\* a root cause on the evidence of two lookups.
C21_Witness ==
    /\ Free /\ fault = "decision backend" /\ node = "reviewer"
    /\ rca \in RootCauses /\ Len(lookups) >= 2

Ceilings == {"ceiling: orchestrator", "ceiling: code loop", "ceiling: log loop"}

\* C22: whichever graph hit its ceiling, the caller gets GraphRecursionError,
\* and a Decision Backend failure reaches the caller as something else.
C22_CeilingIsDistinct ==
    /\ fault \in Ceilings => Outcome.type = "GraphRecursionError"
    /\ fault = "decision backend" => Outcome.type = "Exception"
    /\ pc = "ceiling" <=> fault \in Ceilings
\* The Log loop hit its ceiling after the first Code loop had completed.
C22_Witness ==
    /\ fault = "ceiling: log loop" /\ completed = <<"code">>
    /\ Outcome.type = "GraphRecursionError"

\* The Reasoner has just decided: its successor is scheduled and has not run,
\* or its successor is a loop that has been dispatched and has not iterated.
ReasonerJustDecided ==
    /\ last_decision[1] = "reasoner"
    /\ \/ pc = "outer" /\ node \in {"code_search", "log_search", "reviewer"}
       \/ pc \in {"code_loop", "log_loop"} /\ inner_step = 0
\* The evidence the component that runs next is given.
EvidenceGiven == IF pc \in {"code_loop", "log_loop"} THEN inner_chat ELSE chat_history

\* C23: a Reasoner step is one Decision Backend call, and when the Reasoner
\* has just decided, the evidence its successor (Code loop, Log loop or
\* Reviewer) is given ends with the Reasoner's reasoning.
C23_ReasoningSeenBySuccessor ==
    /\ []((Free /\ ReasonerJustDecided) =>
             /\ Len(EvidenceGiven) >= 1
             /\ EvidenceGiven[Len(EvidenceGiven)][1] = "reasoning"
             /\ EvidenceGiven[Len(EvidenceGiven)][2] \in Reasonings)
    /\ [][(pc = "outer" /\ node = "reasoner" /\ step' = step + 1) =>
             /\ total' = Min(total + 1, recursion_limit + 1)
             /\ last_decision'[1] = "reasoner"]_vars
\* A Code loop dispatched on the Reasoner's request holds the Reasoner's
\* reasoning as the last entry, after the entries of the two bootstrap loops.
C23_Witness ==
    /\ Free /\ pc = "code_loop" /\ inner_step = 0
    /\ last_decision = <<"reasoner", "CodeRequest">>
    /\ Len(inner_chat) >= 3
    /\ inner_chat[Len(inner_chat)] = <<"reasoning", "because", "">>
    /\ inner_chat[1][1] = "Searched for"

\* C24: a fetch for which ripgrep matched nothing leaves the Code loop running
\* with one new entry whose result is "EMPTY" and with the path added to
\* visited_directories; a query for which Loki answered with no streams
\* leaves the Log loop running with one new entry whose result is "EMPTY"; a
\* running loop can always be given its next decision; and a loop hands
\* control back only in the step of a TaskComplete decision.
C24_EmptyResultContinues ==
    /\ [][Free =>
             /\ \A output \in CodeDecisions :
                   CodeFetch(output, "no_match") =>
                       /\ pc' = "code_loop"
                       /\ inner_chat' = Append(inner_chat, <<"Searched for", output.arg, "EMPTY">>)
                       /\ inner_visited' = Append(inner_visited, output.arg)
             /\ \A output \in LogDecisions :
                   LogQuery(output, "no_streams") =>
                       /\ pc' = "log_loop"
                       /\ inner_chat' = Append(inner_chat, <<"Log search", output.arg[1], "EMPTY">>)
             /\ (pc \in {"code_loop", "log_loop"} /\ pc' \in {"outer", "returned"}) =>
                   /\ Decision("TaskComplete", "") \in (IF pc = "code_loop" THEN CodeDecisions
                                                                            ELSE LogDecisions)
                   /\ lookups' = lookups]_vars
    /\ []((Free /\ pc \in {"code_loop", "log_loop"} /\ inner_step < recursion_limit) =>
             ENABLED (CodeLoopComplete \/ LogLoopComplete))
\* Both bootstrap loops looked up once and found nothing: the Code loop went on
\* to complete, and the Log loop is still running after its empty result.
C24_Witness ==
    /\ Free /\ pc = "log_loop" /\ inner_step = 1
    /\ lookups = << <<"code", "/repo/a", "">>, <<"log", "{service=\"payments\"}", "">> >>
    /\ visited_directories = <<"/repo/a">>
    /\ inner_chat[Len(inner_chat)] = <<"Log search", "{service=\"payments\"}", "EMPTY">>

\* The entry a lookup leaves in the evidence.
EntryOf(lookup) ==
    IF lookup[1] = "code" THEN <<"Searched for", lookup[2], OrEmpty(lookup[3])>>
                          ELSE <<"Log search", lookup[2], OrEmpty(lookup[3])>>
\* The last n lookups of the run, their entries and their arguments, in order.
LastEntries(n) == [i \in 1..n |-> EntryOf(lookups[Len(lookups) - n + i])]
LastArgs(n) == [i \in 1..n |-> lookups[Len(lookups) - n + i][2]]

\* C25: the evidence a running loop holds for its next Decision Backend call
\* is the evidence at dispatch followed, in order, by the entries of the
\* iterations it has run so far, and in the Code loop visited_directories is
\* the list at dispatch followed by the paths fetched so far; and the node
\* that runs after a loop holds an evidence log that ends with the entries
\* that loop produced.
C25_NoStaleSnapshot ==
    /\ (Free /\ pc \in {"code_loop", "log_loop"}) =>
           /\ inner_step <= Len(lookups)
           /\ inner_chat = chat_history \o LastEntries(inner_step)
           /\ pc = "code_loop" => inner_visited = visited_directories \o LastArgs(inner_step)
    /\ (Free /\ pc = "outer" /\ (node = "reasoner" \/ (node = "log_search" /\ step = 1))) =>
           /\ inner_step - 1 <= Len(chat_history)
           /\ Produced(chat_history, inner_step - 1) = LastEntries(inner_step - 1)
\* A Log loop dispatched with three entries has run two queries with different
\* results.
C25_Witness ==
    /\ Free /\ pc = "log_loop" /\ inner_step = 2
    /\ Len(chat_history) >= 3 /\ Len(inner_chat) = Len(chat_history) + 2
    /\ inner_chat[Len(inner_chat)] # inner_chat[Len(inner_chat) - 1]

\* C26: a running loop has run at most recursion_limit iterations; one that
\* has run that many can neither fetch, query nor return, it can only be ended
\* by the ceiling; and a run ended by a loop's ceiling ended after exactly
\* that many iterations of the loop and handed its caller no result.
C26_LoopInvocationBounded ==
    /\ pc \in {"code_loop", "log_loop"} => inner_step <= recursion_limit
    /\ (pc \in {"code_loop", "log_loop"} /\ inner_step = recursion_limit) =>
           /\ ENABLED LoopCeiling
           /\ ~ENABLED (CodeLoopFetch \/ CodeLoopComplete \/ LogLoopQuery \/ LogLoopComplete)
    /\ fault \in {"ceiling: code loop", "ceiling: log loop"} =>
           /\ pc = "ceiling"
           /\ inner_step = recursion_limit
           /\ result = NoResult
\* The first Code loop was ended by its ceiling.
C26_Witness ==
    /\ fault = "ceiling: code loop" /\ step = 0
    /\ inner_step = recursion_limit /\ result = NoResult

\* C27: first_pass is true exactly until the first orchestrator step, the
\* completion of the first Code loop, and false ever after; that step
\* schedules LogSearch; and whenever LogSearch is scheduled later it is by a
\* judge's request for logs, not by a Code loop completion.
C27_FirstPassLifecycle ==
    /\ first_pass <=> step = 0
    /\ first_pass <=> completed = <<>>
    /\ (pc = "outer" /\ step = 1) => (node = "log_search" /\ completed = <<"code">>)
    /\ (node = "log_search" /\ step > 1) => last_decision[2] = "LogRequest"
    /\ (pc = "outer" /\ node = "reasoner" /\ last_decision[2] = "CodeRequest") => ~first_pass
\* A later Code loop, run on the Reasoner's request, completed and handed over
\* to the Reasoner.
C27_Witness ==
    /\ ~first_pass /\ pc = "outer" /\ node = "reasoner"
    /\ last_decision = <<"reasoner", "CodeRequest">>
    /\ completed = <<"code", "log">>

\* C28: the immutable context (issue, repo_path, codebase_overview, file_tree,
\* labels_map) has in every reachable state the value it had in the initial
\* state, whatever the backends return.
C28_ContextNeverChanges == context = InitialContext
\* A run that went through both loops, both judges and a further loop, made
\* lookups and returned a root cause, with the context still the initial one.
C28_Witness ==
    /\ pc = "returned" /\ Free /\ step >= 6
    /\ completed = <<"code", "log">> /\ Len(lookups) >= 2
    /\ result.rca = last_proposal
    /\ context = InitialContext

\* C29: the orchestrator's chat_history (evidence log) and visited_directories
\* are left alone by the dispatch of a loop, by every iteration of a loop and
\* by the abort of a loop (ceiling, Decision Backend failure, time format
\* error); they change only in an orchestrator step, and while a loop is
\* running only in the step that merges its returned lists. A run aborted
\* inside a loop therefore ends with both as they were at dispatch.
Canonical == <<chat_history, visited_directories>>
C29_OnlyOrchestratorCommits ==
    [][/\ (pc = "outer" /\ pc' \in {"code_loop", "log_loop"}) => UNCHANGED Canonical
       /\ (InLoop /\ pc' = pc) => UNCHANGED Canonical
       /\ (InLoop /\ pc' \in {"ceiling", "failed"}) => UNCHANGED Canonical
       /\ Canonical' # Canonical =>
             /\ step' = step + 1
             /\ pc' \in {"outer", "returned"}
             /\ InLoop => (\/ CodeLoopComplete
                           \/ LogLoopComplete)]_vars
\* A Code loop run on a judge's request fetched twice and was then aborted by
\* a Decision Backend failure: its lists are longer than the orchestrator's.
C29_Witness ==
    /\ Free /\ pc = "failed" /\ fault = "decision backend"
    /\ node = "code_search" /\ step >= 3 /\ inner_step = 2
    /\ Len(inner_chat) = Len(chat_history) + 2
    /\ Len(inner_visited) = Len(visited_directories) + 2

\* C30: within one run no two requests to the Log Lookup Backend carry the
\* same query. Every request that reaches the backend has start = end =
\* GoodTime (another time string raises before the request) and the limit
\* field's default, so two requests with the same selector are the same query.
LogLookups == {i \in 1..Len(lookups) : lookups[i][1] = "log"}
C30_NoRepeatedLogQuery ==
    Free => \A i, j \in LogLookups : i # j => lookups[i][2] # lookups[j][2]

\* C31: a lookup whose backend request failed transiently (rg ended with an
\* error code, the request to Loki raised) has sent the request more than once
\* by the time its result is entered as evidence, and a time string that does
\* not parse ends the run without any request.
C31_TransientFailureRetried ==
    [][/\ \A output \in CodeDecisions :
             (Free /\ CodeFetch(output, "rg_error")) => attempts' > 1
       /\ \A output \in LogDecisions :
             (Free /\ LogQuery(output, "error")) => attempts' > 1
       /\ LogLoopBadTime => UNCHANGED <<lookups, attempts>>]_vars

\* C32: the Reviewer is scheduled only by the step in which the Reasoner
\* decided RootCauseAnalysis, and it stays scheduled only until it has
\* decided; so whenever the Reviewer is the scheduled node the last judge
\* decision is the Reasoner's proposal, rca is the text of that proposal and
\* first_pass is false.
C32_ReviewerFollowsProposal ==
    /\ [](node = "reviewer" =>
            /\ last_decision = <<"reasoner", "RootCauseAnalysis">>
            /\ reasoner_runs /\ ~first_pass
            /\ Free => (rca \in RootCauses /\ rca = last_proposal))
    /\ [][/\ (node' = "reviewer" /\ node # "reviewer") =>
                \E output \in ReasonerDecisions, reasoning \in Reasonings :
                    /\ output.type = "RootCauseAnalysis"
                    /\ ReasonWith(output, reasoning)
                    /\ Free => rca' = output.arg
          /\ (node = "reviewer" /\ node' = "reviewer") =>
                UNCHANGED <<step, rca, chat_history, visited_directories, inner_step>>]_vars
\* The Reviewer is scheduled at the sixth step, on a proposal the Reasoner
\* made after a further loop had run.
C32_Witness ==
    /\ Free /\ pc = "outer" /\ node = "reviewer" /\ step = 6
    /\ rca = "y" /\ last_proposal = "y"
    /\ \E i \in 1..Len(chat_history) : chat_history[i][1] = "Searched for"

\* C33: while a Code loop runs, and in a run aborted inside it, the paths its
\* visited_directories has gained since dispatch are as many as the entries
\* its chat_history has gained, one per iteration; the paths gained are the
\* directories looked up, in order, whether the lookup found files or not.
InCodeLoop ==
    \/ pc = "code_loop"
    \/ pc \in {"failed", "ceiling"} /\ node = "code_search" /\ fault # "ceiling: orchestrator"
PathsAdded == Len(inner_visited) - Len(visited_directories)
EntriesAdded == Len(inner_chat) - Len(chat_history)
C33_VisitedAndEvidenceInLockstep ==
    InCodeLoop =>
        /\ PathsAdded = EntriesAdded
        /\ Free =>
              /\ PathsAdded = inner_step
              /\ inner_step <= Len(lookups)
              /\ \A i \in 1..inner_step :
                     LET lookup == lookups[Len(lookups) - inner_step + i]
                     IN  /\ lookup[1] = "code"
                         /\ inner_visited[Len(visited_directories) + i] = lookup[2]
                         /\ inner_chat[Len(chat_history) + i]
                              = CodeChatMessage(lookup[2], OrEmpty(lookup[3]))
\* A Code loop run on a judge's request has looked up one directory with no
\* result and one with files; both are marked visited.
C33_Witness ==
    /\ Free /\ pc = "code_loop" /\ step >= 3 /\ inner_step = 2
    /\ Len(chat_history) >= 1
    /\ lookups[Len(lookups) - 1][3] = "" /\ lookups[Len(lookups)][3] # ""
    /\ PathsAdded = 2 /\ EntriesAdded = 2

\* C34: a step that changes visited_directories is the completion of a Code
\* loop; the completion of a Log loop and a decision of the Reasoner or the
\* Reviewer leave visited_directories as it was, and the completion of a Code
\* or a Log loop leaves rca as it was.
LoopCompletion(loop) == pc = loop /\ step' = step + 1
C34_VisitedOnlyByCodeLoop ==
    [][/\ visited_directories' # visited_directories => /\ LoopCompletion("code_loop")
                                                         /\ CodeLoopComplete
       /\ LoopCompletion("log_loop") => UNCHANGED <<visited_directories, rca>>
       /\ JudgeDecision => UNCHANGED visited_directories
       /\ LoopCompletion("code_loop") => UNCHANGED rca]_vars
\* A Log loop run on the Reviewer's request has completed; a directory is
\* marked visited and a root cause has been proposed.
C34_Witness ==
    /\ Free /\ pc = "outer" /\ node = "reasoner"
    /\ last_decision = <<"reviewer", "LogRequest">>
    /\ Len(visited_directories) >= 1 /\ rca \in RootCauses

\* C35: the Reasoner is scheduled only by the completion of a Code or Log
\* loop and its decision never schedules the Reasoner; the Reviewer is
\* scheduled only by a decision of the Reasoner and its decision schedules a
\* loop or ends the run. Hence a loop completes between two invocations of the
\* Reasoner, and a loop and the Reasoner complete between two of the Reviewer.
JudgeStep(judge) == pc = "outer" /\ node = judge /\ step' = step + 1
C35_JudgesNeverBackToBack ==
    [][/\ JudgeStep("reasoner") => node' \in {"code_search", "log_search", "reviewer"}
       /\ JudgeStep("reviewer") => node' \in {"code_search", "log_search", "END"}
       /\ (node' = "reasoner" /\ node # "reasoner") =>
             /\ InLoop /\ step' = step + 1
             /\ completed' # <<>>
       /\ (node' = "reviewer" /\ node # "reviewer") => JudgeStep("reasoner")
       /\ (node' = node /\ node \in {"reasoner", "reviewer"}) => step' = step]_vars
\* The Reviewer asked for code, the Code loop fetched and completed, and the
\* Reasoner is scheduled for its second invocation.
C35_Witness ==
    /\ Free /\ pc = "outer" /\ node = "reasoner" /\ step = 5
    /\ last_decision = <<"reviewer", "CodeRequest">>
    /\ reasoner_runs /\ Len(visited_directories) >= 1

\* C36: in each of the two modules, once a load_* function has cached a value
\* every later call of that function returns the cached value without
\* loading, whatever its argument, and the cache entry keeps that value; a
\* call that finds the entry unset loads, and when the load raises it returns
\* the fallback and leaves the entry unset.
LoadCall(module, key) ==
    /\ last_load'.n = last_load.n + 1
    /\ last_load'.module = module /\ last_load'.key = key
C36_ProcessWideCache ==
    [][\A module \in Modules, key \in CacheKeys :
         LET cached == context_cache[module][key]
             entry == context_cache'[module][key]
         IN  /\ cached # None => entry = cached
             /\ (LoadCall(module, key) /\ cached # None) =>
                   /\ last_load'.returned = cached
                   /\ ~last_load'.loaded
             /\ (LoadCall(module, key) /\ cached = None) =>
                   /\ last_load'.loaded
                   /\ entry = None => last_load'.returned = Fallback(key)
                   /\ entry # None => /\ last_load'.returned = entry
                                      /\ entry[2] = last_load'.argument
             /\ ~LoadCall(module, key) => entry = cached]_vars
\* The fourth call in the process: a file tree cached with empty contents for
\* one path is returned, without loading, to a call for another path, while
\* the overview is cached as well and the labels map is still unset.
C36_Witness ==
    /\ last_load.n = 4 /\ last_load.key = "file_tree" /\ ~last_load.loaded
    /\ last_load.returned = context_cache[last_load.module]["file_tree"]
    /\ last_load.returned[2] # last_load.argument
    /\ last_load.returned[3] = ""
    /\ context_cache[last_load.module]["codebase_overview"] # None
    /\ context_cache[last_load.module]["labels_map"] = None
====
